---- MODULE Spec2Model ----
(***************************************************************************)
(* LinkedHashmap<T: HasId> (src/src/structs/linked_hashmap.rs) holding     *)
(* Order values (src/src/structs/order.rs).                                *)
(*                                                                         *)
(* Option<X> is modelled as a sequence of length at most one: None is <<>> *)
(* and Some(x) is <<x>>.  A container is the record                        *)
(* [head, tail, items]; items is a function whose DOMAIN is the key set of *)
(* the HashMap and whose values are Node records [value, next, prev].      *)
(***************************************************************************)
EXTENDS Integers, Sequences, FiniteSets, TLC

\* ------------------------------------------------------------------ bounds
NumIds == 3        \* ids are 1..NumIds
MaxQty == 1        \* quantity of the orders that are stored
MaxRun == 3        \* longest push run of the push-then-pop scenario
QuantityMax == 3   \* stands for Quantity::MAX (u64::MAX), scaled down
MaxCalls == 3      \* most execute calls made on the single order
MaxRewrites == 1   \* most rewrites of a stored value's id

Ids == 1..NumIds

\* ------------------------------------------------------------------ Option
None == <<>>
Some(x) == <<x>>

\* ------------------------------------------------------------------ Order
\* A valid Order: 0 <= executed <= quantity.  Only the fields the container
\* and the execution arithmetic read are kept.
Order(id, quantity, executed) ==
    [id |-> id, quantity |-> quantity, executed |-> executed]

Orders ==
    { Order(i, MaxQty, e) : i \in Ids, e \in 0..MaxQty }

\* Requested quantities handed to execute: below, equal to and above pending.
Requests == 0..(MaxQty + 1)

\* Quantity is u64.  An overflowing + or - panics in a debug build and wraps
\* in a release build: the wrapped value is computed and the overflow is
\* reported beside it.
Word == QuantityMax + 1

u64_sub(a, b) == (a - b) % Word

u64_add(a, b) == (a + b) % Word

sub_overflows(a, b) == a < b

add_overflows(a, b) == a + b > QuantityMax

get_pending(o) == u64_sub(o.quantity, o.executed)

\* Fault variant of is_complete: < for <=.
is_complete_Strict(o) == o.quantity < o.executed

is_complete(o) == o.quantity <= o.executed

\* Fault variant of execute: a request above pending adds the whole request.
execute_AddAll(o, quantity) ==
    LET pending == get_pending(o) IN
    IF pending < quantity
    THEN [order    |-> [o EXCEPT !.executed = u64_add(o.executed, quantity)],
          ret      |-> u64_sub(quantity, pending),
          overflow |-> sub_overflows(o.quantity, o.executed)
                          \/ add_overflows(o.executed, quantity)]
    ELSE IF pending = quantity
    THEN [order    |-> [o EXCEPT !.executed = o.quantity],
          ret      |-> 0,
          overflow |-> sub_overflows(o.quantity, o.executed)]
    ELSE [order    |-> [o EXCEPT !.executed = u64_add(o.executed, quantity)],
          ret      |-> 0,
          overflow |-> sub_overflows(o.quantity, o.executed)
                          \/ add_overflows(o.executed, quantity)]

\* Fault variant of execute: a request below pending fills the whole order.
execute_FillAll(o, quantity) ==
    LET pending == get_pending(o) IN
    IF pending < quantity
    THEN [order    |-> [o EXCEPT !.executed = o.quantity],
          ret      |-> u64_sub(quantity, pending),
          overflow |-> sub_overflows(o.quantity, o.executed)]
    ELSE [order    |-> [o EXCEPT !.executed = o.quantity],
          ret      |-> 0,
          overflow |-> sub_overflows(o.quantity, o.executed)]

\* Fault variant of execute: a request above pending is returned whole.
execute_ReturnAll(o, quantity) ==
    LET pending == get_pending(o) IN
    IF pending < quantity
    THEN [order    |-> [o EXCEPT !.executed = o.quantity],
          ret      |-> quantity,
          overflow |-> sub_overflows(o.quantity, o.executed)]
    ELSE IF pending = quantity
    THEN [order    |-> [o EXCEPT !.executed = o.quantity],
          ret      |-> 0,
          overflow |-> sub_overflows(o.quantity, o.executed)]
    ELSE [order    |-> [o EXCEPT !.executed = u64_add(o.executed, quantity)],
          ret      |-> 0,
          overflow |-> sub_overflows(o.quantity, o.executed)
                          \/ add_overflows(o.executed, quantity)]

\* execute(&mut self, quantity) -> remainder, as [order, ret, overflow].
\* quantity - pending is computed only when pending < quantity and cannot
\* overflow.
execute(o, quantity) ==
    LET pending == get_pending(o) IN
    IF pending < quantity
    THEN [order    |-> [o EXCEPT !.executed = o.quantity],
          ret      |-> u64_sub(quantity, pending),
          overflow |-> sub_overflows(o.quantity, o.executed)]
    ELSE IF pending = quantity
    THEN [order    |-> [o EXCEPT !.executed = o.quantity],
          ret      |-> 0,
          overflow |-> sub_overflows(o.quantity, o.executed)]
    ELSE [order    |-> [o EXCEPT !.executed = u64_add(o.executed, quantity)],
          ret      |-> 0,
          overflow |-> sub_overflows(o.quantity, o.executed)
                          \/ add_overflows(o.executed, quantity)]

\* impl HasId for Order
id_of(v) == v.id

\* ------------------------------------------------------------------ Node
Node(value, prev, next) == [value |-> value, prev |-> prev, next |-> next]

\* HashMap::insert and HashMap::remove on a function.
map_insert(m, k, n) ==
    [x \in (DOMAIN m) \cup {k} |-> IF x = k THEN n ELSE m[x]]

map_remove(m, k) ==
    [x \in (DOMAIN m) \ {k} |-> m[x]]

EmptyMap == [x \in {} |-> None]

\* ------------------------------------------------------------------ LinkedHashmap
new == [head |-> None, tail |-> None, items |-> EmptyMap]

\* Fault variant of push: the old tail's next is not set.
push_NoTailLink(c, value) ==
    LET id == id_of(value) IN
    IF id \in DOMAIN c.items
    THEN c
    ELSE IF c.tail # None
    THEN LET tail_id == c.tail[1] IN
         IF tail_id \in DOMAIN c.items
         THEN [head  |-> c.head,
               tail  |-> Some(id),
               items |-> map_insert(c.items, id,
                                    Node(value, Some(id_of(c.items[tail_id].value)), None))]
         ELSE [head  |-> c.head,
               tail  |-> Some(id),
               items |-> map_insert(c.items, id, Node(value, None, None))]
    ELSE [head  |-> Some(id),
          tail  |-> Some(id),
          items |-> map_insert(c.items, id, Node(value, None, None))]

\* Fault variant of push: a duplicate id overwrites the stored value, as
\* HashMap::insert alone would.
push_Replace(c, value) ==
    LET id == id_of(value) IN
    IF id \in DOMAIN c.items
    THEN [c EXCEPT !.items[id].value = value]
    ELSE IF c.tail # None
    THEN LET tail_id == c.tail[1] IN
         IF tail_id \in DOMAIN c.items
         THEN [head  |-> c.head,
               tail  |-> Some(id),
               items |-> map_insert([c.items EXCEPT ![tail_id].next = Some(id)], id,
                                    Node(value, Some(id_of(c.items[tail_id].value)), None))]
         ELSE [head  |-> c.head,
               tail  |-> Some(id),
               items |-> map_insert(c.items, id, Node(value, None, None))]
    ELSE [head  |-> Some(id),
          tail  |-> Some(id),
          items |-> map_insert(c.items, id, Node(value, None, None))]

push(c, value) ==
    LET id == id_of(value) IN
    IF id \in DOMAIN c.items
    THEN c
    ELSE IF c.tail # None
    THEN LET tail_id == c.tail[1] IN
         IF tail_id \in DOMAIN c.items
         THEN [head  |-> c.head,
               tail  |-> Some(id),
               items |-> map_insert([c.items EXCEPT ![tail_id].next = Some(id)], id,
                                    Node(value, Some(id_of(c.items[tail_id].value)), None))]
         ELSE [head  |-> c.head,
               tail  |-> Some(id),
               items |-> map_insert(c.items, id, Node(value, None, None))]
    ELSE [head  |-> Some(id),
          tail  |-> Some(id),
          items |-> map_insert(c.items, id, Node(value, None, None))]

\* Fault variant of push_first: the old head's prev is not set.
push_first_NoPrevLink(c, value) ==
    LET id == id_of(value) IN
    IF id \in DOMAIN c.items
    THEN c
    ELSE IF c.head # None
    THEN LET head_id == c.head[1] IN
         IF head_id \in DOMAIN c.items
         THEN [head  |-> Some(id),
               tail  |-> c.tail,
               items |-> map_insert(c.items, id,
                                    Node(value, None, Some(id_of(c.items[head_id].value))))]
         ELSE [head  |-> Some(id),
               tail  |-> c.tail,
               items |-> map_insert(c.items, id, Node(value, None, None))]
    ELSE [head  |-> Some(id),
          tail  |-> Some(id),
          items |-> map_insert(c.items, id, Node(value, None, None))]

\* Fault variant of push_first: on an empty container tail is not set.
push_first_NoTail(c, value) ==
    LET id == id_of(value) IN
    IF id \in DOMAIN c.items
    THEN c
    ELSE IF c.head # None
    THEN LET head_id == c.head[1] IN
         IF head_id \in DOMAIN c.items
         THEN [head  |-> Some(id),
               tail  |-> c.tail,
               items |-> map_insert([c.items EXCEPT ![head_id].prev = Some(id)], id,
                                    Node(value, None, Some(id_of(c.items[head_id].value))))]
         ELSE [head  |-> Some(id),
               tail  |-> c.tail,
               items |-> map_insert(c.items, id, Node(value, None, None))]
    ELSE [head  |-> Some(id),
          tail  |-> c.tail,
          items |-> map_insert(c.items, id, Node(value, None, None))]

push_first(c, value) ==
    LET id == id_of(value) IN
    IF id \in DOMAIN c.items
    THEN c
    ELSE IF c.head # None
    THEN LET head_id == c.head[1] IN
         IF head_id \in DOMAIN c.items
         THEN [head  |-> Some(id),
               tail  |-> c.tail,
               items |-> map_insert([c.items EXCEPT ![head_id].prev = Some(id)], id,
                                    Node(value, None, Some(id_of(c.items[head_id].value))))]
         ELSE [head  |-> Some(id),
               tail  |-> c.tail,
               items |-> map_insert(c.items, id, Node(value, None, None))]
    ELSE [head  |-> Some(id),
          tail  |-> Some(id),
          items |-> map_insert(c.items, id, Node(value, None, None))]

\* Fault variant of pop: the new head keeps its prev link to the popped id.
pop_KeepPrev(c) ==
    IF c.head = None
    THEN [c |-> c, ret |-> None]
    ELSE LET head_id == c.head[1] IN
         IF head_id \notin DOMAIN c.items
         THEN [c |-> [head |-> None, tail |-> None, items |-> c.items], ret |-> None]
         ELSE LET node  == c.items[head_id]
                  items == map_remove(c.items, head_id)
              IN  IF node.next # None
                  THEN IF node.next[1] \in DOMAIN items
                       THEN [c |-> [head  |-> node.next,
                                    tail  |-> c.tail,
                                    items |-> items],
                             ret |-> Some(node.value)]
                       ELSE [c |-> [head |-> None, tail |-> None, items |-> items],
                             ret |-> Some(node.value)]
                  ELSE [c |-> [head |-> None, tail |-> None, items |-> items],
                        ret |-> Some(node.value)]

\* Fault variant of pop: popping the last entry leaves tail as it was.
pop_KeepTail(c) ==
    IF c.head = None
    THEN [c |-> c, ret |-> None]
    ELSE LET head_id == c.head[1] IN
         IF head_id \notin DOMAIN c.items
         THEN [c |-> [head |-> None, tail |-> None, items |-> c.items], ret |-> None]
         ELSE LET node  == c.items[head_id]
                  items == map_remove(c.items, head_id)
              IN  IF node.next # None
                  THEN IF node.next[1] \in DOMAIN items
                       THEN [c |-> [head  |-> node.next,
                                    tail  |-> c.tail,
                                    items |-> [items EXCEPT ![node.next[1]].prev = None]],
                             ret |-> Some(node.value)]
                       ELSE [c |-> [head |-> None, tail |-> None, items |-> items],
                             ret |-> Some(node.value)]
                  ELSE [c |-> [head |-> None, tail |-> c.tail, items |-> items],
                        ret |-> Some(node.value)]

\* pop(&mut self) -> Option<T>, as [c, ret].
pop(c) ==
    IF c.head = None
    THEN [c |-> c, ret |-> None]
    ELSE LET head_id == c.head[1] IN
         IF head_id \notin DOMAIN c.items
         THEN [c |-> [head |-> None, tail |-> None, items |-> c.items], ret |-> None]
         ELSE LET node  == c.items[head_id]
                  items == map_remove(c.items, head_id)
              IN  IF node.next # None
                  THEN IF node.next[1] \in DOMAIN items
                       THEN [c |-> [head  |-> node.next,
                                    tail  |-> c.tail,
                                    items |-> [items EXCEPT ![node.next[1]].prev = None]],
                             ret |-> Some(node.value)]
                       ELSE [c |-> [head |-> None, tail |-> None, items |-> items],
                             ret |-> Some(node.value)]
                  ELSE [c |-> [head |-> None, tail |-> None, items |-> items],
                        ret |-> Some(node.value)]

\* Fault variant of remove_next: removing the last entry leaves tail as it was.
remove_next_KeepTail(c, node) ==
    IF node.next # None
    THEN LET next_id == node.next[1] IN
         IF next_id \in DOMAIN c.items
         THEN [c EXCEPT !.items[next_id].prev = node.prev]
         ELSE IF c.tail = Some(next_id)
         THEN [c EXCEPT !.tail = node.prev]
         ELSE c
    ELSE c

\* Fault variant of remove_next: the successor keeps its prev link.
remove_next_NoRelink(c, node) ==
    IF node.next # None
    THEN c
    ELSE [c EXCEPT !.tail = node.prev]

\* The branch pop takes on c: "empty" (head is None), "head_missing" (the
\* head id is not in the map), "relinked" (the successor becomes head),
\* "successor_missing" (the successor is not in the map) or "last".
pop_branch(c) ==
    IF c.head = None
    THEN "empty"
    ELSE LET head_id == c.head[1] IN
         IF head_id \notin DOMAIN c.items
         THEN "head_missing"
         ELSE LET node  == c.items[head_id]
                  items == map_remove(c.items, head_id)
              IN  IF node.next # None
                  THEN IF node.next[1] \in DOMAIN items
                       THEN "relinked"
                       ELSE "successor_missing"
                  ELSE "last"

\* The first half of remove: relink the successor, or move tail.
remove_next(c, node) ==
    IF node.next # None
    THEN LET next_id == node.next[1] IN
         IF next_id \in DOMAIN c.items
         THEN [c EXCEPT !.items[next_id].prev = node.prev]
         ELSE IF c.tail = Some(next_id)
         THEN [c EXCEPT !.tail = node.prev]
         ELSE c
    ELSE [c EXCEPT !.tail = node.prev]

\* Fault variant of remove_prev: the predecessor keeps its next link.
remove_prev_NoRelink(c, node) ==
    IF node.prev # None
    THEN c
    ELSE [c EXCEPT !.head = node.next]

\* Fault variant of remove_prev: removing the head entry leaves head as it was.
remove_prev_KeepHead(c, node) ==
    IF node.prev # None
    THEN LET prev_id == node.prev[1] IN
         IF prev_id \in DOMAIN c.items
         THEN [c EXCEPT !.items[prev_id].next = node.next]
         ELSE IF c.head = Some(prev_id)
         THEN [c EXCEPT !.head = node.next]
         ELSE c
    ELSE c

\* The second half of remove: relink the predecessor, or move head.
remove_prev(c, node) ==
    IF node.prev # None
    THEN LET prev_id == node.prev[1] IN
         IF prev_id \in DOMAIN c.items
         THEN [c EXCEPT !.items[prev_id].next = node.next]
         ELSE IF c.head = Some(prev_id)
         THEN [c EXCEPT !.head = node.next]
         ELSE c
    ELSE [c EXCEPT !.head = node.next]

\* Fault variant of remove: an absent id is unlinked like a node without
\* neighbours, which resets both boundaries.
remove_AbsentUnlinks(c, id) ==
    IF id \notin DOMAIN c.items
    THEN [c |-> [c EXCEPT !.head = None, !.tail = None], ret |-> None]
    ELSE LET node == c.items[id]
             c1   == [c EXCEPT !.items = map_remove(c.items, id)]
         IN  [c |-> remove_prev(remove_next(c1, node), node), ret |-> Some(node.value)]

\* remove(&mut self, id) -> Option<T>, as [c, ret].
remove(c, id) ==
    IF id \notin DOMAIN c.items
    THEN [c |-> c, ret |-> None]
    ELSE LET node == c.items[id]
             c1   == [c EXCEPT !.items = map_remove(c.items, id)]
         IN  [c |-> remove_prev(remove_next(c1, node), node), ret |-> Some(node.value)]

peek(c) ==
    IF c.head # None /\ c.head[1] \in DOMAIN c.items
    THEN Some(c.items[c.head[1]].value)
    ELSE None

\* Fault variant of peek_tail: it reads head.
peek_tail_Head(c) ==
    IF c.head # None /\ c.head[1] \in DOMAIN c.items
    THEN Some(c.items[c.head[1]].value)
    ELSE None

peek_tail(c) ==
    IF c.tail # None /\ c.tail[1] \in DOMAIN c.items
    THEN Some(c.items[c.tail[1]].value)
    ELSE None

get(c, id) ==
    IF id \in DOMAIN c.items THEN Some(c.items[id].value) ELSE None

\* get_mut(&mut self, id) -> Option<&mut T>: the value the borrow names.
get_mut(c, id) ==
    IF id \in DOMAIN c.items THEN Some(c.items[id].value) ELSE None

\* get_mut(id) followed by a write of the pub field Order.id of the borrowed
\* value: the key of the entry stays, the id its value reports changes.
get_mut_set_id(c, id, new_id) ==
    IF id \notin DOMAIN c.items
    THEN c
    ELSE [c EXCEPT !.items[id].value.id = new_id]

len(c) == Cardinality(DOMAIN c.items)

is_empty(c) == DOMAIN c.items = {}

contains(c, id) == id \in DOMAIN c.items

\* Fault variant of clear: the boundaries are reset and the map is kept.
clear_KeepItems(c) == [head |-> None, tail |-> None, items |-> c.items]

clear(c) == [head |-> None, tail |-> None, items |-> EmptyMap]

\* Fault variant of get_mut_execute: the entry is taken out, executed and
\* pushed back, which moves it to the tail.
get_mut_execute_Reinsert(c, id, quantity) ==
    IF id \notin DOMAIN c.items
    THEN [c |-> c, ret |-> None]
    ELSE LET r == execute(c.items[id].value, quantity) IN
         [c |-> push(remove(c, id).c, r.order), ret |-> Some(r.ret)]

\* get_mut(id) followed by Order::execute(quantity) on the borrowed value,
\* as [c, ret]; ret is None when get_mut finds no entry.
get_mut_execute(c, id, quantity) ==
    IF id \notin DOMAIN c.items
    THEN [c |-> c, ret |-> None]
    ELSE LET r == execute(c.items[id].value, quantity) IN
         [c |-> [c EXCEPT !.items[id].value = r.order], ret |-> Some(r.ret)]

\* ------------------------------------------------------------------ state
VARIABLES
    head,      \* LinkedHashmap.head : Option<Id>
    tail,      \* LinkedHashmap.tail : Option<Id>
    items,     \* LinkedHashmap.items : HashMap<Id, Node<T>>
    op,        \* the last call: its name, arguments and return value
               \* (for clear, val is the number of entries it discarded)
    ref,       \* the logical FIFO order of the ids, kept without links
    pushed,    \* push-then-pop scenario: the values pushed, in order
    popped,    \* push-then-pop scenario: the values returned by pop, in order
    gone,      \* removal history: the id pop or remove took out last, if any
    order,     \* a single Order outside any container: Option<Order>
    fills,     \* the execute calls made on order: [asked, unmet], in order
    rewrites   \* the number of times a stored value's id was rewritten

vars == <<head, tail, items, op, ref, pushed, popped, gone, order, fills, rewrites>>

\* The variables a call on the container alone leaves as they are.
scenario == <<pushed, popped, gone, order, fills, rewrites>>

\* The container the variables hold.
self == [head |-> head, tail |-> tail, items |-> items]

\* The container after the step.
self_next == [head |-> head', tail |-> tail', items |-> items']

Call(name, id, val, ret) == [name |-> name, id |-> id, val |-> val, ret |-> ret]

\* The elements of a sequence.
Range(s) == { s[i] : i \in 1..Len(s) }

\* s without the element x.
Without(s, x) == SelectSeq(s, LAMBDA y : y # x)

\* The step to container c.
Becomes(c) ==
    /\ head' = c.head
    /\ tail' = c.tail
    /\ items' = c.items

Init ==
    /\ head = new.head
    /\ tail = new.tail
    /\ items = new.items
    /\ op = Call("new", None, None, None)
    /\ ref = <<>>
    /\ pushed = <<>>
    /\ popped = <<>>
    /\ gone = None
    /\ order = None
    /\ fills = <<>>
    /\ rewrites = 0

\* ------------------------------------------------------------------ calls
Push(value) ==
    /\ Becomes(push(self, value))
    /\ op' = Call("push", Some(id_of(value)), Some(value), None)
    /\ ref' = IF id_of(value) \in Range(ref) THEN ref ELSE Append(ref, id_of(value))

PushFirst(value) ==
    /\ Becomes(push_first(self, value))
    /\ op' = Call("push_first", Some(id_of(value)), Some(value), None)
    /\ ref' = IF id_of(value) \in Range(ref) THEN ref ELSE <<id_of(value)>> \o ref

Pop ==
    LET r == pop(self) IN
    /\ Becomes(r.c)
    /\ op' = Call("pop", None, None, r.ret)
    /\ ref' = IF ref = <<>> THEN ref ELSE Tail(ref)

Remove(id) ==
    LET r == remove(self, id) IN
    /\ Becomes(r.c)
    /\ op' = Call("remove", Some(id), None, r.ret)
    /\ ref' = Without(ref, id)

Clear ==
    /\ Becomes(clear(self))
    /\ op' = Call("clear", None, Some(len(self)), None)
    /\ ref' = <<>>

Peek ==
    /\ op' = Call("peek", None, None, peek(self))
    /\ UNCHANGED <<head, tail, items, ref>>

PeekTail ==
    /\ op' = Call("peek_tail", None, None, peek_tail(self))
    /\ UNCHANGED <<head, tail, items, ref>>

Get(id) ==
    /\ op' = Call("get", Some(id), None, get(self, id))
    /\ UNCHANGED <<head, tail, items, ref>>

\* get_mut(id) alone: the caller reads the borrowed value and writes nothing.
GetMut(id) ==
    /\ op' = Call("get_mut", Some(id), None, get_mut(self, id))
    /\ UNCHANGED <<head, tail, items, ref>>

GetMutExecute(id, quantity) ==
    LET r == get_mut_execute(self, id, quantity) IN
    /\ Becomes(r.c)
    /\ op' = Call("get_mut", Some(id), Some(quantity), r.ret)
    /\ UNCHANGED ref

CallPush == \E value \in Orders : Push(value) /\ UNCHANGED scenario

CallPushFirst == \E value \in Orders : PushFirst(value) /\ UNCHANGED scenario

CallPop == Pop /\ UNCHANGED scenario

CallRemove == \E id \in Ids : Remove(id) /\ UNCHANGED scenario

CallClear == Clear /\ UNCHANGED scenario

CallPeek == Peek /\ UNCHANGED scenario

CallPeekTail == PeekTail /\ UNCHANGED scenario

CallGet == \E id \in Ids : Get(id) /\ UNCHANGED scenario

CallGetMutExecute ==
    \E id \in Ids, quantity \in Requests :
        GetMutExecute(id, quantity) /\ UNCHANGED scenario

Next ==
    \/ CallPush
    \/ CallPushFirst
    \/ CallPop
    \/ CallRemove
    \/ CallClear
    \/ CallPeek
    \/ CallPeekTail
    \/ CallGet
    \/ CallGetMutExecute

Spec == Init /\ [][Next]_vars

\* ------------------------------------------------------------------ push N, pop N
\* From new(): pushes of values with pairwise distinct ids, then pops only.
RunPush ==
    \E value \in Orders :
        /\ popped = <<>>
        /\ Len(pushed) < MaxRun
        /\ id_of(value) \notin { id_of(pushed[i]) : i \in 1..Len(pushed) }
        /\ Push(value)
        /\ pushed' = Append(pushed, value)
        /\ UNCHANGED <<popped, gone, order, fills, rewrites>>

RunPop ==
    /\ Len(popped) <= Len(pushed)
    /\ Pop
    /\ popped' = Append(popped, op'.ret)
    /\ UNCHANGED <<pushed, gone, order, fills, rewrites>>

RunNext == RunPush \/ RunPop

SpecRun == Init /\ [][RunNext]_vars

\* ------------------------------------------------------------------ removal history
\* The calls of the container, with the id pop or remove took out last
\* recorded in gone.
Taken(ret, before) == IF ret = None THEN before ELSE Some(id_of(ret[1]))

HistPush ==
    \E value \in Orders :
        Push(value) /\ UNCHANGED <<pushed, popped, gone, order, fills, rewrites>>

HistPushFirst ==
    \E value \in Orders :
        PushFirst(value) /\ UNCHANGED <<pushed, popped, gone, order, fills, rewrites>>

HistPop ==
    /\ Pop
    /\ gone' = Taken(op'.ret, gone)
    /\ UNCHANGED <<pushed, popped, order, fills, rewrites>>

HistRemove ==
    \E id \in Ids :
        /\ Remove(id)
        /\ gone' = Taken(op'.ret, gone)
        /\ UNCHANGED <<pushed, popped, order, fills, rewrites>>

HistGet ==
    \E id \in Ids : Get(id) /\ UNCHANGED <<pushed, popped, gone, order, fills, rewrites>>

HistGetMut ==
    \E id \in Ids : GetMut(id) /\ UNCHANGED <<pushed, popped, gone, order, fills, rewrites>>

HistNext ==
    \/ HistPush
    \/ HistPushFirst
    \/ HistPop
    \/ HistRemove
    \/ HistGet
    \/ HistGetMut

SpecHist == Init /\ [][HistNext]_vars

\* ------------------------------------------------------------------ unstable ids
\* The calls of the container when a caller also rewrites, through get_mut,
\* the id of a stored value.  ref plays no part here.
GetMutSetId(id, new_id) ==
    /\ Becomes(get_mut_set_id(self, id, new_id))
    /\ op' = Call("get_mut_set_id", Some(id), Some(new_id), None)
    /\ UNCHANGED ref

\* The orders pushed here are as Order::new makes them: nothing executed.
NewOrders == { Order(i, MaxQty, 0) : i \in Ids }

StalePush == \E value \in NewOrders : Push(value) /\ UNCHANGED scenario

StalePushFirst == \E value \in NewOrders : PushFirst(value) /\ UNCHANGED scenario

StalePop == Pop /\ UNCHANGED scenario

StaleRemove == \E id \in Ids : Remove(id) /\ UNCHANGED scenario

StaleSetId ==
    \E id, new_id \in Ids :
        /\ rewrites < MaxRewrites
        /\ GetMutSetId(id, new_id)
        /\ rewrites' = rewrites + 1
        /\ UNCHANGED <<pushed, popped, gone, order, fills>>

StaleNext ==
    \/ StalePush
    \/ StalePushFirst
    \/ StalePop
    \/ StaleRemove
    \/ StaleSetId

SpecStale == Init /\ [][StaleNext]_vars

\* ------------------------------------------------------------------ one order
\* Order::new(owner, quantity, price, side, mode): executed = 0.
Order_new(quantity) == Order(1, quantity, 0)

\* The sum of field f over the calls made.
RECURSIVE Sum(_, _)
Sum(s, f) == IF s = <<>> THEN 0 ELSE s[1][f] + Sum(Tail(s), f)

InitOrder ==
    /\ head = new.head
    /\ tail = new.tail
    /\ items = new.items
    /\ op = Call("new", None, None, None)
    /\ ref = <<>>
    /\ pushed = <<>>
    /\ popped = <<>>
    /\ gone = None
    /\ order \in { Some(Order_new(quantity)) : quantity \in 0..QuantityMax }
    /\ fills = <<>>
    /\ rewrites = 0

Execute ==
    \E quantity \in 0..QuantityMax :
        LET r == execute(order[1], quantity) IN
        /\ Len(fills) < MaxCalls
        /\ order' = Some(r.order)
        /\ op' = Call("execute", None, Some(quantity), Some(r.ret))
        /\ fills' = Append(fills, [asked |-> quantity, unmet |-> r.ret,
                                   overflow |-> r.overflow])
        /\ UNCHANGED <<head, tail, items, ref, pushed, popped, gone, rewrites>>

OrderNext == Execute

SpecOrder == InitOrder /\ [][OrderNext]_vars

\* ------------------------------------------------------------------ traversal
RECURSIVE walk_next(_, _, _)
\* The ids met from cur along the next links; a link to a missing id is
\* listed and ends the walk, and so does the end of the fuel.
walk_next(c, cur, fuel) ==
    IF cur = None \/ fuel = 0
    THEN <<>>
    ELSE IF cur[1] \notin DOMAIN c.items
    THEN <<cur[1]>>
    ELSE <<cur[1]>> \o walk_next(c, c.items[cur[1]].next, fuel - 1)

RECURSIVE walk_prev(_, _, _)
\* The ids met from cur along the prev links.
walk_prev(c, cur, fuel) ==
    IF cur = None \/ fuel = 0
    THEN <<>>
    ELSE IF cur[1] \notin DOMAIN c.items
    THEN <<cur[1]>>
    ELSE <<cur[1]>> \o walk_prev(c, c.items[cur[1]].prev, fuel - 1)

\* One step more than there are entries: a cycle shows as a walk too long.
Forward(c) == walk_next(c, c.head, len(c) + 1)

Backward(c) == walk_prev(c, c.tail, len(c) + 1)

Reverse(s) == [i \in 1..Len(s) |-> s[Len(s) + 1 - i]]

NoDuplicates(s) == \A i, j \in 1..Len(s) : s[i] = s[j] => i = j

\* ------------------------------------------------------------------ C1
\* C1: after every sequence of calls the ids met by following next from head
\* are the reference sequence (push appends a new id, push_first prepends a
\* new id, pop drops the first, remove(id) deletes id), and pop returns the
\* entry whose id is the first of the reference sequence (None when that
\* sequence is empty).
C1_FifoMatchesReference ==
    /\ [](Forward(self) = ref)
    /\ [][op'.name = "pop" =>
            IF ref = <<>>
            THEN op'.ret = None
            ELSE op'.ret # None /\ id_of(op'.ret[1]) = Head(ref)]_vars

\* A pop has returned an entry and left two entries whose FIFO order is not
\* the order of their ids.
C1_Witness ==
    /\ op.name = "pop"
    /\ op.ret # None
    /\ Len(ref) = 2
    /\ Forward(self) = ref
    /\ id_of(op.ret[1]) > ref[1]
    /\ ref[1] > ref[2]

\* ------------------------------------------------------------------ C2
\* C2: in every reachable state head is None iff the map is empty iff tail
\* is None.
C2_BoundariesIffEmpty ==
    /\ (head = None) <=> (DOMAIN items = {})
    /\ (DOMAIN items = {}) <=> (tail = None)

\* A remove has emptied a container again.
C2_Witness ==
    /\ op.name = "remove"
    /\ op.ret # None
    /\ head = None
    /\ tail = None
    /\ DOMAIN items = {}

\* ------------------------------------------------------------------ C3
\* C3: following next from head visits every key of the map exactly once,
\* as many nodes as len(), and ends at tail; following prev from tail visits
\* the same keys in the reverse order.
C3_TraversalCoversMap ==
    LET f == Forward(self)
        b == Backward(self)
    IN  /\ Range(f) = DOMAIN items
        /\ NoDuplicates(f)
        /\ Len(f) = len(self)
        /\ tail = IF f = <<>> THEN None ELSE Some(f[Len(f)])
        /\ b = Reverse(f)

\* A remove has taken one entry out of a container and at least two are
\* left, met in one order forwards and in the reverse order backwards.
C3_Witness ==
    /\ op.name = "remove"
    /\ op.ret # None
    /\ len(self) >= 2
    /\ Len(Forward(self)) = len(self)
    /\ Backward(self) = Reverse(Forward(self))
    /\ tail = Some(Forward(self)[len(self)])

\* ------------------------------------------------------------------ C4
\* C4: every prev or next link names an id present in the map, links are
\* mutual, the head node is the only node with prev = None and the tail node
\* the only node with next = None.
C4_LinksMutual ==
    \A x \in DOMAIN items :
        /\ items[x].next # None =>
              /\ items[x].next[1] \in DOMAIN items
              /\ items[items[x].next[1]].prev = Some(x)
        /\ items[x].prev # None =>
              /\ items[x].prev[1] \in DOMAIN items
              /\ items[items[x].prev[1]].next = Some(x)
        /\ (items[x].prev = None) <=> (head = Some(x))
        /\ (items[x].next = None) <=> (tail = Some(x))

\* A container of three linked entries built from both ends.
C4_Witness ==
    /\ op.name = "push_first"
    /\ len(self) = 3
    /\ head = op.id
    /\ items[head[1]].next # None
    /\ items[items[head[1]].next[1]].next = tail

\* ------------------------------------------------------------------ C5
\* C5: push(v) or push_first(v) with an id already present changes nothing:
\* head, tail, the key set (so len()), every node's prev and next and every
\* stored value, the one under that id included, stay as they were.
C5_DuplicatePushIsNoOp ==
    [][(op'.name \in {"push", "push_first"} /\ op'.id[1] \in DOMAIN items) =>
          /\ head' = head
          /\ tail' = tail
          /\ len(self_next) = len(self)
          /\ items' = items]_vars

\* A push of a value whose id is stored with another value has happened, and
\* the stored entry is not the tail.
C5_Witness ==
    /\ op.name = "push"
    /\ op.id[1] \in DOMAIN items
    /\ items[op.id[1]].value # op.val[1]
    /\ tail # op.id
    /\ len(self) >= 2

\* ------------------------------------------------------------------ C6
\* C6: pop() on a non-empty container returns the entry at head, removes its
\* key (len one less), makes the old head's successor the new head with
\* prev = None, or sets head and tail to None when it was the only entry;
\* pop() on an empty container returns None and leaves it empty.
C6_PopTakesHead ==
    [][op'.name = "pop" =>
          IF is_empty(self)
          THEN /\ op'.ret = None
               /\ is_empty(self_next)
               /\ head' = None
               /\ tail' = None
          ELSE /\ head # None
               /\ head[1] \in DOMAIN items
               /\ op'.ret = Some(items[head[1]].value)
               /\ DOMAIN items' = DOMAIN items \ {head[1]}
               /\ len(self_next) = len(self) - 1
               /\ IF len(self) = 1
                  THEN head' = None /\ tail' = None
                  ELSE /\ head' = items[head[1]].next
                       /\ head' # None
                       /\ items'[head'[1]].prev = None]_vars

\* A pop has returned an entry and its successor is the new head.
C6_Witness ==
    /\ op.name = "pop"
    /\ op.ret # None
    /\ head # None
    /\ items[head[1]].prev = None
    /\ len(self) >= 2

\* ------------------------------------------------------------------ C7
\* C7: remove(id) for a present id returns that entry, makes len() one less
\* and contains(id) false, leaves the other entries in their relative FIFO
\* order with the neighbours of the removed node linked to each other, moves
\* head or tail to the neighbour when the entry was at a boundary, and leaves
\* both None when it was the only entry.
C7_RemoveUnlinks ==
    [][(op'.name = "remove" /\ op'.id[1] \in DOMAIN items) =>
          LET id   == op'.id[1]
              node == items[id]
          IN  /\ op'.ret = Some(node.value)
              /\ len(self_next) = len(self) - 1
              /\ ~contains(self_next, id)
              /\ Forward(self_next) = Without(Forward(self), id)
              /\ \A x \in DOMAIN items' : items'[x].value = items[x].value
              /\ node.prev # None => items'[node.prev[1]].next = node.next
              /\ node.next # None => items'[node.next[1]].prev = node.prev
              /\ head' = IF head = Some(id) THEN node.next ELSE head
              /\ tail' = IF tail = Some(id) THEN node.prev ELSE tail
              /\ len(self) = 1 => (head' = None /\ tail' = None)]_vars

\* A remove of a present id has returned its entry and left two entries,
\* linked to each other, with head and tail on them.
C7_Witness ==
    /\ op.name = "remove"
    /\ op.ret # None
    /\ id_of(op.ret[1]) = op.id[1]
    /\ ~contains(self, op.id[1])
    /\ len(self) = 2
    /\ head # tail
    /\ items[head[1]].next = tail
    /\ items[tail[1]].prev = head

\* ------------------------------------------------------------------ C8
\* C8: from an empty container, N pushes of entries with pairwise distinct
\* ids followed by N pops return the entries in the order pushed; then the
\* container is empty (len() = 0, is_empty(), head and tail None) and one
\* more pop returns None.
C8_PushPopRoundTrip ==
    /\ Len(popped) <= Len(pushed) + 1
    /\ \A k \in 1..Len(popped) :
          popped[k] = IF k <= Len(pushed) THEN Some(pushed[k]) ELSE None
    /\ Len(popped) >= Len(pushed) =>
          /\ len(self) = 0
          /\ is_empty(self)
          /\ head = None
          /\ tail = None
    /\ Len(popped) < Len(pushed) => len(self) = Len(pushed) - Len(popped)

\* MaxRun entries were pushed, all were popped, and one more pop was made.
C8_Witness ==
    /\ Len(pushed) = MaxRun
    /\ Len(popped) = MaxRun + 1
    /\ popped[MaxRun] = Some(pushed[MaxRun])
    /\ popped[MaxRun + 1] = None

\* ------------------------------------------------------------------ C9
\* C9: peek() returns the entry first in the FIFO order (the reference
\* sequence) and peek_tail() the last, both are None exactly when the container is empty, they differ when
\* len() >= 2, and a call of either returns that value and changes neither
\* head, tail, the map nor any link.
C9_PeekReadsBoundaries ==
    /\ [](/\ peek(self) = IF ref = <<>> THEN None ELSE get(self, ref[1])
          /\ peek_tail(self) = IF ref = <<>> THEN None ELSE get(self, ref[Len(ref)])
          /\ (peek(self) = None) <=> is_empty(self)
          /\ (peek_tail(self) = None) <=> is_empty(self)
          /\ len(self) >= 2 => peek(self) # peek_tail(self))
    /\ [][/\ op'.name = "peek" =>
                /\ op'.ret = peek(self)
                /\ UNCHANGED <<head, tail, items>>
          /\ op'.name = "peek_tail" =>
                /\ op'.ret = peek_tail(self)
                /\ UNCHANGED <<head, tail, items>>]_vars

\* peek_tail was called on a container of at least two entries.
C9_Witness ==
    /\ op.name = "peek_tail"
    /\ len(self) >= 2
    /\ op.ret # None
    /\ op.ret = get(self, tail[1])
    /\ op.ret # get(self, head[1])

\* ------------------------------------------------------------------ C10
RECURSIVE drain(_, _)
\* The ids of the entries that fuel pops return, in order.
drain(c, fuel) ==
    LET r == pop(c) IN
    IF fuel = 0 \/ r.ret = None
    THEN <<>>
    ELSE <<id_of(r.ret[1])>> \o drain(r.c, fuel - 1)

\* C10: Order::execute on the value borrowed by get_mut(id) leaves head,
\* tail, the key set (so len()), the id of every value and every node's prev
\* and next unchanged, so the pops that follow return the entries in the
\* order they would have had without the mutation.
C10_GetMutKeepsPosition ==
    [][op'.name = "get_mut" =>
          /\ head' = head
          /\ tail' = tail
          /\ DOMAIN items' = DOMAIN items
          /\ len(self_next) = len(self)
          /\ \A x \in DOMAIN items :
                /\ items'[x].prev = items[x].prev
                /\ items'[x].next = items[x].next
                /\ id_of(items'[x].value) = x
          /\ drain(self_next, NumIds + 1) = drain(self, NumIds + 1)]_vars

\* execute has filled a whole order that is stored before another entry.
C10_Witness ==
    /\ op.name = "get_mut"
    /\ op.val = Some(MaxQty + 1)
    /\ op.ret = Some(1)
    /\ is_complete(items[op.id[1]].value)
    /\ items[op.id[1]].next # None
    /\ len(self) >= 2

\* ------------------------------------------------------------------ C11
\* C11: from any reachable state clear() leaves head = None, tail = None and
\* an empty map (len() = 0, is_empty(), contains(id) false for every id); the
\* container is then equal, field by field, to the one new() builds, and every
\* operation applied to it gives what it gives on new().
C11_ClearResets ==
    [][op'.name = "clear" =>
          /\ head' = None
          /\ tail' = None
          /\ DOMAIN items' = {}
          /\ len(self_next) = 0
          /\ is_empty(self_next)
          /\ \A id \in Ids : ~contains(self_next, id)
          /\ self_next = new
          /\ pop(self_next) = pop(new)
          /\ peek(self_next) = peek(new)
          /\ peek_tail(self_next) = peek_tail(new)
          /\ \A value \in Orders :
                /\ push(self_next, value) = push(new, value)
                /\ push_first(self_next, value) = push_first(new, value)
                /\ remove(self_next, id_of(value)) = remove(new, id_of(value))]_vars

\* clear has discarded a container holding every id.
C11_Witness ==
    /\ op.name = "clear"
    /\ op.val = Some(NumIds)
    /\ self = new
    /\ ref = <<>>

\* ------------------------------------------------------------------ C12
Min(a, b) == IF a <= b THEN a ELSE b

Max(a, b) == IF a >= b THEN a ELSE b

\* C12: for an order made by Order::new and any sequence of execute calls,
\* 0 <= executed <= quantity after every call, executed never decreases, and
\* quantity - executed in get_pending never underflows (nor does any other
\* u64 operation of execute overflow).
C12_ExecutedWithinQuantity ==
    /\ [](order # None =>
            /\ 0 <= order[1].executed
            /\ order[1].executed <= order[1].quantity
            /\ ~sub_overflows(order[1].quantity, order[1].executed)
            /\ get_pending(order[1]) = order[1].quantity - order[1].executed
            /\ \A i \in 1..Len(fills) : ~fills[i].overflow)
    /\ [][op'.name = "execute" => order'[1].executed >= order[1].executed]_vars

\* An order was filled in part, then asked for more than was left.
C12_Witness ==
    /\ order # None
    /\ Len(fills) = 2
    /\ fills[1].asked > 0
    /\ fills[1].asked < order[1].quantity
    /\ fills[2].unmet > 0
    /\ order[1].executed = order[1].quantity

\* ------------------------------------------------------------------ C13
\* C13: with pending = quantity - executed, execute(r) does this: pending < r,
\* executed becomes quantity and r - pending is returned; pending = r,
\* executed becomes quantity and 0 is returned; pending > r, executed grows
\* by r and 0 is returned; afterwards is_complete() holds exactly in the first
\* two cases and get_pending() is max(pending - r, 0).
C13_ExecuteCases ==
    [][op'.name = "execute" =>
          LET o       == order[1]
              o2      == order'[1]
              pending == o.quantity - o.executed
              r       == op'.val[1]
              ret     == op'.ret[1]
          IN  /\ pending < r => (o2.executed = o.quantity /\ ret = r - pending)
              /\ pending = r => (o2.executed = o.quantity /\ ret = 0)
              /\ pending > r => (o2.executed = o.executed + r /\ ret = 0)
              /\ is_complete(o2) <=> (pending <= r)
              /\ get_pending(o2) = Max(pending - r, 0)
              /\ o2.quantity = o.quantity
              /\ id_of(o2) = id_of(o)]_vars

\* The three cases in one run: a request below pending, then one equal to
\* pending, then one above it.
C13_Witness ==
    /\ order # None
    /\ Len(fills) = 3
    /\ fills[1].asked > 0
    /\ fills[1].asked < order[1].quantity
    /\ fills[2].asked = order[1].quantity - fills[1].asked
    /\ fills[2].unmet = 0
    /\ fills[3].asked > 0
    /\ fills[3].unmet = fills[3].asked
    /\ op.name = "execute"

\* ------------------------------------------------------------------ C19
\* C19: every execute(r) conserves quantity, the growth of executed plus the
\* returned remainder is r; so after execute(r1), ..., execute(rn) on a fresh
\* order executed = min(quantity, r1 + ... + rn) and the remainders sum to
\* max(0, r1 + ... + rn - quantity).
C19_ExecuteConserves ==
    /\ [](order # None =>
            /\ order[1].executed = Min(order[1].quantity, Sum(fills, "asked"))
            /\ Sum(fills, "unmet") = Max(0, Sum(fills, "asked") - order[1].quantity))
    /\ [][op'.name = "execute" =>
            (order'[1].executed - order[1].executed) + op'.ret[1] = op'.val[1]]_vars

\* MaxCalls calls whose requests exceed the quantity in total, with a
\* remainder returned by more than one of them.
C19_Witness ==
    /\ order # None
    /\ Len(fills) = MaxCalls
    /\ Sum(fills, "asked") > order[1].quantity
    /\ order[1].quantity > 0
    /\ fills[1].unmet = 0
    /\ fills[1].asked > 0
    /\ fills[MaxCalls - 1].unmet > 0
    /\ fills[MaxCalls].unmet > 0

\* ------------------------------------------------------------------ C20
\* C20: is_complete() holds exactly when get_pending() = 0; completion is
\* absorbing: on a complete order execute(r) returns r, leaves executed equal
\* to quantity and the order complete; execute(0) on any order returns 0 and
\* changes nothing.
C20_CompletionAbsorbing ==
    /\ [](order # None => (is_complete(order[1]) <=> get_pending(order[1]) = 0))
    /\ [][op'.name = "execute" =>
            /\ is_complete(order[1]) =>
                  /\ op'.ret = op'.val
                  /\ order'[1].executed = order'[1].quantity
                  /\ is_complete(order'[1])
            /\ op'.val = Some(0) =>
                  /\ op'.ret = Some(0)
                  /\ order' = order]_vars

\* An order was filled exactly, asked for more, then asked for nothing.
C20_Witness ==
    /\ order # None
    /\ Len(fills) = 3
    /\ order[1].quantity > 0
    /\ fills[1].asked = order[1].quantity
    /\ fills[1].unmet = 0
    /\ fills[2].asked > 0
    /\ fills[2].unmet = fills[2].asked
    /\ fills[3].asked = 0
    /\ fills[3].unmet = 0
    /\ is_complete(order[1])

\* ------------------------------------------------------------------ C14
\* C14: in every reachable state a head or tail that is Some names an id
\* present in the map, and pop would take neither of its defensive branches
\* (head id missing from the map, successor of the head missing from the map).
C14_BoundariesNamePresentIds ==
    /\ head # None => head[1] \in DOMAIN items
    /\ tail # None => tail[1] \in DOMAIN items
    /\ pop_branch(self) \notin {"head_missing", "successor_missing"}

\* An entry was removed from a container and the head still has a successor.
C14_Witness ==
    /\ op.name = "remove"
    /\ op.ret # None
    /\ op.id[1] \notin DOMAIN items
    /\ head # None
    /\ head # tail
    /\ pop_branch(self) = "relinked"
    /\ ref[1] = head[1]

\* ------------------------------------------------------------------ C17
\* C17: push_first(v) with an id not yet present makes v the head: peek() and
\* the next pop() return v, the previous head (if any) gets prev = v's id and
\* v gets next = the previous head, tail is unchanged when the container was
\* non-empty and becomes v's id when it was empty, and len() grows by one.
C17_PushFirstMakesHead ==
    [][(op'.name = "push_first" /\ op'.id[1] \notin DOMAIN items) =>
          LET id == op'.id[1]
              v  == op'.val[1]
          IN  /\ head' = Some(id)
              /\ peek(self_next) = Some(v)
              /\ pop(self_next).ret = Some(v)
              /\ items'[id].prev = None
              /\ items'[id].next = head
              /\ ~is_empty(self) =>
                    /\ head # None
                    /\ items'[head[1]].prev = Some(id)
                    /\ tail' = tail
              /\ is_empty(self) => tail' = Some(id)
              /\ len(self_next) = len(self) + 1
              /\ Forward(self_next) = <<id>> \o Forward(self)]_vars

\* push_first has put a new entry in front of at least two others.
C17_Witness ==
    /\ op.name = "push_first"
    /\ head = op.id
    /\ peek(self) = op.val
    /\ len(self) >= 3
    /\ tail # head
    /\ items[head[1]].next # None
    /\ items[items[head[1]].next[1]].prev = head

\* ------------------------------------------------------------------ C16
\* C16: remove(id), get(id) and get_mut(id) for an id that is not present
\* return None, contains(id) is false, and head, tail, the map, the links
\* and len() are left as they were; so it is for an id that was present
\* earlier and has since been popped or removed.
C16_AbsentIdIsNoOp ==
    [][(op'.name \in {"remove", "get", "get_mut"} /\ op'.id[1] \notin DOMAIN items) =>
          /\ op'.ret = None
          /\ ~contains(self, op'.id[1])
          /\ ~contains(self_next, op'.id[1])
          /\ head' = head
          /\ tail' = tail
          /\ items' = items
          /\ len(self_next) = len(self)]_vars

\* remove was called for the id taken out last, which is still absent, on a
\* container that holds other entries.
C16_Witness ==
    /\ op.name = "remove"
    /\ op.ret = None
    /\ gone # None
    /\ op.id = gone
    /\ ~contains(self, gone[1])
    /\ len(self) >= 2

\* ------------------------------------------------------------------ C18
\* C18: an id taken out by pop() or remove(id) can be inserted again: the
\* push of a value with that id is not treated as a duplicate, len() grows by
\* one, the entry holds the pushed value and stands at the tail (push_first:
\* at the head), and no prev or next link to the old entry is left.
C18_RemovedIdReinserts ==
    [][(/\ op'.name \in {"push", "push_first"}
        /\ gone # None
        /\ op'.id = gone
        /\ ~contains(self, gone[1])) =>
          LET id == gone[1]
              v  == op'.val[1]
          IN  /\ \A x \in DOMAIN items :
                    items[x].next # Some(id) /\ items[x].prev # Some(id)
              /\ head # Some(id)
              /\ tail # Some(id)
              /\ contains(self_next, id)
              /\ len(self_next) = len(self) + 1
              /\ get(self_next, id) = Some(v)
              /\ op'.name = "push" =>
                    /\ tail' = Some(id)
                    /\ items'[id].next = None
                    /\ items'[id].prev = tail
                    /\ Forward(self_next) = Append(Forward(self), id)
              /\ op'.name = "push_first" =>
                    /\ head' = Some(id)
                    /\ items'[id].prev = None
                    /\ items'[id].next = head
                    /\ Forward(self_next) = <<id>> \o Forward(self)
              /\ \A x \in DOMAIN items :
                    /\ items'[x].next = Some(id) => items'[id].prev = Some(x)
                    /\ items'[x].prev = Some(id) => items'[id].next = Some(x)]_vars

\* The id taken out last was pushed again and stands at the tail, behind at
\* least two entries.
C18_Witness ==
    /\ op.name = "push"
    /\ gone # None
    /\ op.id = gone
    /\ tail = gone
    /\ get(self, gone[1]) = op.val
    /\ len(self) >= 3
    /\ Forward(self)[len(self)] = gone[1]

\* ------------------------------------------------------------------ C15
\* C15: pop() on a container whose head id is absent from the map returns
\* None and leaves the container empty: head = None, tail = None,
\* is_empty() true and len() = 0.
C15_PopHealsToEmpty ==
    [][(op'.name = "pop" /\ head # None /\ head[1] \notin DOMAIN items) =>
          /\ op'.ret = None
          /\ head' = None
          /\ tail' = None
          /\ is_empty(self_next)
          /\ len(self_next) = 0]_vars

\* What pop does there: None is returned and both boundaries are reset.
C15_PopResetsBoundaries ==
    [][(op'.name = "pop" /\ head # None /\ head[1] \notin DOMAIN items) =>
          /\ op'.ret = None
          /\ head' = None
          /\ tail' = None
          /\ items' = items]_vars

====
